---- MODULE Spec2Model ----
(***************************************************************************)
(* Commission reconciliation: the DataProcessor of src/main.py (the        *)
(* in-memory ledger master_data, the change list updates_made, the PDF     *)
(* table path, the text fallback, the introducer-report upsert) and the    *)
(* run loop of main() that drives it.                                      *)
(*                                                                         *)
(* Text is a sequence of one-character strings, so that strip(), lower(),  *)
(* substring tests, isdigit(), re.sub and float() are computed and not     *)
(* assumed.  Money is an integer number of hundredths (50.00 is 5000);     *)
(* binary floating-point rounding is outside the model.                    *)
(***************************************************************************)
EXTENDS Integers, Sequences, FiniteSets, TLC

\* The one element of a singleton.  Only({e(x) : x \in {d}}) is e(d), with d worked
\* out once however often e uses it.
Only(S) == CHOOSE x \in S : TRUE

(***************************************************************************)
(* Characters and Python's str methods                                     *)
(***************************************************************************)
UpperAlpha == <<"A","B","C","D","E","F","G","H","I","J","K","L","M",
                "N","O","P","Q","R","S","T","U","V","W","X","Y","Z">>

LowerAlpha == <<"a","b","c","d","e","f","g","h","i","j","k","l","m",
                "n","o","p","q","r","s","t","u","v","w","x","y","z">>

DigitChars == <<"0","1","2","3","4","5","6","7","8","9">>

Whitespace == {" ", "\t", "\n"}

UpperSet == {UpperAlpha[i] : i \in 1..26}

LowerSet == {LowerAlpha[i] : i \in 1..26}

DigitSet == {DigitChars[i] : i \in 1..10}

IsDigitChar(c) == c \in DigitSet

DigitVal(c) == (CHOOSE i \in 1..10 : DigitChars[i] = c) - 1

\* str.lower(), one character
LowerChar(c) ==
    IF c \in UpperSet
    THEN LowerAlpha[CHOOSE i \in 1..26 : UpperAlpha[i] = c]
    ELSE c

\* str.lower()
RECURSIVE Lower(_)
Lower(s) == IF s = <<>> THEN <<>> ELSE <<LowerChar(Head(s))>> \o Lower(Tail(s))

\* the Python test `sub in s`
Contains(s, sub) ==
    \E i \in 0..(Len(s) - Len(sub)) : SubSeq(s, i + 1, i + Len(sub)) = sub

\* re.sub(r'[...]', '', s) for a character class given as a set
RemoveChars(s, class) == SelectSeq(s, LAMBDA c : c \notin class)

\* str.strip()
Strip(s) ==
    LET keep == {i \in 1..Len(s) : s[i] \notin Whitespace}
    IN  IF keep = {} THEN <<>>
        ELSE LET lo == CHOOSE i \in keep : \A j \in keep : i <= j
                 hi == CHOOSE i \in keep : \A j \in keep : i >= j
             IN  SubSeq(s, lo, hi)

\* str.isdigit() (ASCII digits)
IsDigit(s) == Len(s) > 0 /\ \A i \in 1..Len(s) : IsDigitChar(s[i])

RECURSIVE DigitsVal(_)
DigitsVal(s) ==
    IF s = <<>> THEN 0
    ELSE DigitsVal(SubSeq(s, 1, Len(s) - 1)) * 10 + DigitVal(s[Len(s)])

RECURSIVE IntDigits(_)
IntDigits(n) ==
    IF n < 10 THEN <<DigitChars[n + 1]>>
    ELSE IntDigits(n \div 10) \o <<DigitChars[(n % 10) + 1]>>

(***************************************************************************)
(* float(s): surrounding whitespace is ignored, then an optional sign and  *)
(* digits with at most one point and at least one digit.  The result is    *)
(* [ok, v]: ok = FALSE is ValueError, v is in hundredths (fraction digits  *)
(* beyond the second are outside the model).  Python also reads "nan",     *)
(* "inf", exponents and underscores; no input of the model uses them.      *)
(***************************************************************************)
FloatOfStripped(t) ==
    LET neg   == Len(t) > 0 /\ t[1] = "-"
        first == IF Len(t) > 0 /\ t[1] \in {"-", "+"} THEN 2 ELSE 1
        dots  == {i \in first..Len(t) : t[i] = "."}
        dot   == IF dots = {} THEN Len(t) + 1 ELSE CHOOSE i \in dots : TRUE
        ip    == SubSeq(t, first, dot - 1)
        fp    == SubSeq(t, dot + 1, Len(t))
        wellformed ==
            /\ first <= Len(t)
            /\ Cardinality(dots) <= 1
            /\ Len(ip) + Len(fp) > 0
            /\ \A i \in first..Len(t) : i = dot \/ IsDigitChar(t[i])
        f2    == SubSeq(fp \o <<"0", "0">>, 1, 2)
        mag   == DigitsVal(ip) * 100 + DigitsVal(f2)
    IN  IF wellformed
        THEN [ok |-> TRUE, v |-> IF neg THEN 0 - mag ELSE mag]
        ELSE [ok |-> FALSE, v |-> 0]

PyFloat(s) == Only({FloatOfStripped(t) : t \in {Strip(s)}})

\* str(x) of a float x given in hundredths: 2500 is "25.0", 2550 "25.5", 2505 "25.05"
FloatRepr(n) ==
    LET mag  == IF n < 0 THEN 0 - n ELSE n
        frac == mag % 100
        fs   == IF frac % 10 = 0 THEN <<DigitChars[(frac \div 10) + 1]>>
                ELSE <<DigitChars[(frac \div 10) + 1], DigitChars[(frac % 10) + 1]>>
    IN  (IF n < 0 THEN <<"-">> ELSE <<>>) \o IntDigits(mag \div 100) \o <<".">> \o fs

(***************************************************************************)
(* Cell values of a DataFrame: a float, a str, NaN, or None                *)
(***************************************************************************)
Num(n) == [t |-> "num", n |-> n, s |-> <<>>]

Txt(s) == [t |-> "txt", n |-> 0, s |-> s]

NaN == [t |-> "nan", n |-> 0, s |-> <<>>]

None == [t |-> "none", n |-> 0, s |-> <<>>]

\* pd.isna / pd.notna
IsNa(v) == v.t \in {"nan", "none"}

\* str(value)
PyStr(v) ==
    CASE v.t = "txt"  -> v.s
      [] v.t = "num"  -> FloatRepr(v.n)
      [] v.t = "nan"  -> <<"n", "a", "n">>
      [] v.t = "none" -> <<"N", "o", "n", "e">>

\* float(value) of a cell that is not NaN/None: [ok, v]
FloatOf(v) ==
    IF v.t = "num" THEN [ok |-> TRUE, v |-> v.n] ELSE PyFloat(PyStr(v))

\* DataProcessor._clean_currency, on the text of str(value)
\* CleanCurrency with the comma left in the token: what C12 has to tell from
\* CleanCurrency
CleanCurrencyKeepComma(s) ==
    Only({ IF cleaned = <<>> THEN 0
           ELSE IF PyFloat(cleaned).ok THEN PyFloat(cleaned).v ELSE 0 :
           cleaned \in {RemoveChars(s, {"£"} \cup Whitespace)} })

CleanCurrency(s) ==
    Only({ IF cleaned = <<>> THEN 0
           ELSE IF PyFloat(cleaned).ok THEN PyFloat(cleaned).v ELSE 0 :
           cleaned \in {RemoveChars(s, {"£", ","} \cup Whitespace)} })

(***************************************************************************)
(* Names the code spells out                                               *)
(***************************************************************************)
CaseID == <<"C","a","s","e","I","D">>

Commission == <<"C","o","m","m","i","s","s","i","o","n">>

(***************************************************************************)
(* pandas DataFrame: ordered column labels and rows, a row being a         *)
(* function from the column labels to cell values                          *)
(***************************************************************************)
EmptyFrame == [columns |-> <<>>, rows |-> <<>>]

Range(f) == {f[i] : i \in DOMAIN f}

\* `col in df.columns`
HasColumn(df, col) == col \in Range(df.columns)

\* df.empty: no rows or no columns
IsEmpty(df) == df.rows = <<>> \/ df.columns = <<>>

\* pd.DataFrame(columns=cols): the labels and no row
FrameOfColumns(cols) == [columns |-> cols, rows |-> <<>>]

\* df[col] = v for a label the frame does not have: a new last column, v in every row
AddColumn(df, col, v) ==
    [columns |-> Append(df.columns, col),
     rows    |-> [i \in 1..Len(df.rows) |->
                    [c \in DOMAIN df.rows[i] \cup {col} |->
                        IF c = col THEN v ELSE df.rows[i][c]]]]

\* df['CaseID'] == case_id: the indices of the rows whose CaseID cell is that str
Mask(df, case_id) ==
    {i \in 1..Len(df.rows) : df.rows[i][CaseID] = Txt(case_id)}

\* df.loc[mask, col].iloc[0]
FirstOf(df, mask, col) ==
    df.rows[CHOOSE i \in mask : \A j \in mask : i <= j][col]

\* df.loc[mask, col] = v
SetCells(df, mask, col, v) ==
    [df EXCEPT !.rows = [i \in 1..Len(df.rows) |->
        IF i \in mask THEN [df.rows[i] EXCEPT ![col] = v] ELSE df.rows[i]]]

\* ConcatRow as it would be with the frame of the new row taking the place of the
\* ledger, pd.DataFrame([new_row]) alone: what C3 has to tell from ConcatRow
ConcatRowAlone(df, keys, vals) == [columns |-> keys, rows |-> <<vals>>]

\* pd.concat([df, pd.DataFrame([new_row])], ignore_index=True), new_row a dict given
\* as its keys in order and its values: labels new to df become last columns, cells
\* that either side lacks are NaN
ConcatRow(df, keys, vals) ==
    LET fresh == SelectSeq(keys, LAMBDA k : ~HasColumn(df, k))
        cols  == df.columns \o fresh
        all   == Range(cols)
        old   == [i \in 1..Len(df.rows) |->
                    [c \in all |-> IF c \in DOMAIN df.rows[i] THEN df.rows[i][c] ELSE NaN]]
        new   == [c \in all |-> IF c \in Range(keys) THEN vals[c] ELSE NaN]
    IN  [columns |-> cols, rows |-> Append(old, new)]

(***************************************************************************)
(* DataProcessor._update_payment(case_id, payment_type, amount).           *)
(* The result is the ledger, the change list, and whether float() of the   *)
(* current cell raised (the exception leaves the method before any write   *)
(* to the row or to updates_made; the columns created before it remain).   *)
(***************************************************************************)
\* lines 268-275: the column is created, with v in every row, unless it exists
EnsureColumn(df, col, v) == IF HasColumn(df, col) THEN df ELSE AddColumn(df, col, v)

\* UpdateOrInsert with the amount put in place of the current value instead of added
\* to it: what C19 has to tell from UpdateOrInsert
UpdateOrInsertReplacing(m2, upd, case_id, payment_type, amount) ==
    LET mask == Mask(m2, case_id)
    IN  IF mask # {}
        THEN [md     |-> SetCells(m2, mask, payment_type, Num(amount)),
              upd    |-> Append(upd, case_id),
              raised |-> FALSE]
        ELSE [md     |-> ConcatRow(m2, <<CaseID, payment_type>>,
                                   [c \in {CaseID, payment_type} |->
                                       IF c = payment_type THEN Num(amount) ELSE Txt(case_id)]),
              upd    |-> Append(upd, case_id),
              raised |-> FALSE]

\* lines 278-294, on the ledger m2 that has both columns
UpdateOrInsert(m2, upd, case_id, payment_type, amount) ==
    LET mask == Mask(m2, case_id)
        cur  == FirstOf(m2, mask, payment_type)
        f    == IF IsNa(cur) THEN [ok |-> TRUE, v |-> 0] ELSE FloatOf(cur)
    IN  IF mask # {}
        THEN IF f.ok
             THEN [md     |-> SetCells(m2, mask, payment_type, Num(f.v + amount)),
                   upd    |-> Append(upd, case_id),
                   raised |-> FALSE]
             ELSE [md |-> m2, upd |-> upd, raised |-> TRUE]
        ELSE [md     |-> ConcatRow(m2, <<CaseID, payment_type>>,
                                   [c \in {CaseID, payment_type} |->
                                       IF c = payment_type THEN Num(amount) ELSE Txt(case_id)]),
              upd    |-> Append(upd, case_id),
              raised |-> FALSE]

UpdatePayment(md, upd, case_id, payment_type, amount) ==
    Only({ UpdateOrInsert(m2, upd, case_id, payment_type, amount) :
           m2 \in { EnsureColumn(m1, payment_type, Num(0)) :
                    m1 \in {EnsureColumn(md, CaseID, None)} } })

(***************************************************************************)
(* process_pdf_commission_statement: the columns of one table.  A header   *)
(* is the first row of the table, a sequence of cells (str or None); the   *)
(* result is the position of the chosen column, 0 for None.                *)
(***************************************************************************)
\* `if col`: a header cell that is neither None nor ''
Truthy(cell) == cell.t = "txt" /\ cell.s # <<>>

\* the first position of a loop that breaks on its first hit (0: no hit)
First(hits) ==
    IF hits = {} THEN 0 ELSE CHOOSE i \in hits : \A j \in hits : i <= j

IsCaseIdHeader(cell) ==
    /\ Truthy(cell)
    /\ \E col_lower \in {Lower(PyStr(cell))} :
          /\ Contains(col_lower, <<"c","a","s","e">>)
          /\ Contains(col_lower, <<"i","d">>)

IsPaidHeader(cell) ==
    /\ Truthy(cell)
    /\ \E col_lower \in {Lower(PyStr(cell))} :
          \/ Contains(col_lower, <<"p","a","i","d">>)
          \/ Contains(col_lower, <<"a","m","o","u","n","t">>)
          \/ Contains(col_lower, <<"r","e","c","e","i","v","e","d">>)

IsPaymentTypeHeader(cell) ==
    /\ Truthy(cell)
    /\ \E col_lower \in {Lower(PyStr(cell))} :
          \/ Contains(col_lower, <<"p","a","y","m","e","n","t">>)
          \/ Contains(col_lower, <<"t","y","p","e">>)
          \/ Contains(col_lower, <<"f","e","e">>)

case_id_col(header) == First({i \in 1..Len(header) : IsCaseIdHeader(header[i])})

paid_col(header) == First({i \in 1..Len(header) : IsPaidHeader(header[i])})

payment_type_col(header) == First({i \in 1..Len(header) : IsPaymentTypeHeader(header[i])})

\* lines 154-175: the three locals for a table with this first row
TableColumns(header) ==
    [case_id_col      |-> case_id_col(header),
     paid_col         |-> paid_col(header),
     payment_type_col |-> payment_type_col(header)]

\* line 178: the table is processed only with a Case ID and a Paid column
TableUsable(cols) == cols.case_id_col # 0 /\ cols.paid_col # 0

(***************************************************************************)
(* One iteration of the row loop (lines 186-199): the _update_payment call *)
(* the row leads to, or none.                                              *)
(***************************************************************************)
NoCall == [made |-> FALSE, case_id |-> <<>>, payment_type |-> <<>>, amount |-> 0]

Call(c, k, a) == [made |-> TRUE, case_id |-> c, payment_type |-> k, amount |-> a]

\* TableRowCall as it would be without the test of line 197, paid_amount > 0: what
\* C7 has to tell from TableRowCall
TableRowCallAnyAmount(cols, r) ==
    Only({ IF case_id = <<>> \/ case_id = <<"n","a","n">> \/ ~IsDigit(case_id)
           THEN NoCall
           ELSE Call(case_id,
                     IF cols.payment_type_col # 0
                     THEN Strip(PyStr(r[cols.payment_type_col]))
                     ELSE Commission,
                     paid_amount) :
           case_id     \in {Strip(PyStr(r[cols.case_id_col]))},
           paid_amount \in {CleanCurrency(PyStr(r[cols.paid_col]))} })

TableRowCall(cols, r) ==
    Only({ IF case_id = <<>> \/ case_id = <<"n","a","n">> \/ ~IsDigit(case_id)
           THEN NoCall
           ELSE IF paid_amount > 0
           THEN Call(case_id,
                     IF cols.payment_type_col # 0
                     THEN Strip(PyStr(r[cols.payment_type_col]))
                     ELSE Commission,
                     paid_amount)
           ELSE NoCall :
           case_id     \in {Strip(PyStr(r[cols.case_id_col]))},
           paid_amount \in {CleanCurrency(PyStr(r[cols.paid_col]))} })

(***************************************************************************)
(* _process_pdf_text_fallback, one line of text.                           *)
(* The case pattern (line 230) finds the leftmost run of 6 or 7 digits     *)
(* with a word boundary on both sides.  The amount pattern (line 237)      *)
(* finds the leftmost pound sign that, after optional whitespace, is       *)
(* followed by a digit or comma; its group is the digits and commas, an    *)
(* optional point, and the digits after the point.                         *)
(***************************************************************************)
IsWordChar(c) == IsDigitChar(c) \/ c = "_" \/ c \in UpperSet \/ c \in LowerSet

\* \b between positions i and i+1 of line (0 and Len(line) are the ends)
Boundary(line, i) ==
    LET before == i >= 1 /\ IsWordChar(line[i])
        after  == i < Len(line) /\ IsWordChar(line[i + 1])
    IN  before # after

AllDigits(line, i, n) ==
    i + n - 1 <= Len(line) /\ \A j \in i..(i + n - 1) : IsDigitChar(line[j])

\* the length matched at position i: 7 is tried before 6 (greedy), 0 is no match
CaseMatchLen(line, i) ==
    IF ~Boundary(line, i - 1) THEN 0
    ELSE IF AllDigits(line, i, 7) /\ Boundary(line, i + 6) THEN 7
    ELSE IF AllDigits(line, i, 6) /\ Boundary(line, i + 5) THEN 6
    ELSE 0

\* case_match: [found, group]
CaseMatch(line) ==
    LET at == First({i \in 1..Len(line) : CaseMatchLen(line, i) > 0})
    IN  IF at = 0 THEN [found |-> FALSE, group |-> <<>>]
        ELSE [found |-> TRUE, group |-> SubSeq(line, at, at + CaseMatchLen(line, at) - 1)]

\* the end of the longest run of characters of class from position i (i - 1: none)
RECURSIVE RunEnd(_, _, _)
RunEnd(line, i, class) ==
    IF i <= Len(line) /\ line[i] \in class THEN RunEnd(line, i + 1, class) ELSE i - 1

\* the group matched for the pound sign at position i, <<>> when there is no match
AmountGroupAt(line, i) ==
    LET s0 == RunEnd(line, i + 1, Whitespace) + 1
        e1 == RunEnd(line, s0, DigitSet \cup {","})
        e2 == IF e1 + 1 <= Len(line) /\ line[e1 + 1] = "." THEN e1 + 1 ELSE e1
        e3 == RunEnd(line, e2 + 1, DigitSet)
    IN  IF line[i] = "£" /\ e1 >= s0 THEN SubSeq(line, s0, e3) ELSE <<>>

\* amount_match: [found, group]
AmountMatch(line) ==
    LET at == First({i \in 1..Len(line) : AmountGroupAt(line, i) # <<>>})
    IN  IF at = 0 THEN [found |-> FALSE, group |-> <<>>]
        ELSE [found |-> TRUE, group |-> AmountGroupAt(line, at)]

\* LinePaymentType with 'proc' tested before 'packaging': what C11 has to tell from
\* LinePaymentType
LinePaymentTypeProcFirst(line) ==
    Only({ IF Contains(lower, <<"p","r","o","c">>) THEN <<"P","r","o","c"," ","F","e","e">>
           ELSE IF Contains(lower, <<"p","a","c","k","a","g","i","n","g">>)
           THEN <<"P","a","c","k","a","g","i","n","g"," ","F","e","e"," ","P","a","y","m","e","n","t">>
           ELSE IF Contains(lower, <<"b","r","o","k","e","r">>)
           THEN <<"B","r","o","k","e","r"," ","F","e","e">>
           ELSE Commission :
           lower \in {Lower(line)} })

\* lines 245-251
LinePaymentType(line) ==
    Only({ IF Contains(lower, <<"p","a","c","k","a","g","i","n","g">>)
           THEN <<"P","a","c","k","a","g","i","n","g"," ","F","e","e"," ","P","a","y","m","e","n","t">>
           ELSE IF Contains(lower, <<"p","r","o","c">>) THEN <<"P","r","o","c"," ","F","e","e">>
           ELSE IF Contains(lower, <<"b","r","o","k","e","r">>)
           THEN <<"B","r","o","k","e","r"," ","F","e","e">>
           ELSE Commission :
           lower \in {Lower(line)} })

\* one iteration of the line loop (lines 228-254): the _update_payment call, or none
LineCall(line) ==
    Only({ IF case_match.found /\ amount_match.found
              /\ CleanCurrency(amount_match.group) > 0
           THEN Call(case_match.group, LinePaymentType(line),
                     CleanCurrency(amount_match.group))
           ELSE NoCall :
           case_match \in {CaseMatch(line)}, amount_match \in {AmountMatch(line)} })

(***************************************************************************)
(* process_excel_introducer_report.  The report is a DataFrame df: its     *)
(* column labels (str) in order, and rows that map each label to a cell.   *)
(***************************************************************************)
\* lines 314-318: the first label that, lower-cased and without spaces, contains 'caseid'
\* (the position in columns, 0 for None)
caseid_col(columns) ==
    First({i \in 1..Len(columns) :
             /\ columns[i] # <<>>
             /\ Contains(RemoveChars(Lower(columns[i]), {" "}), <<"c","a","s","e","i","d">>)})

\* lines 334-338
fee_columns(columns) ==
    {columns[i] : i \in {j \in 1..Len(columns) :
        \E col_lower \in {Lower(columns[j])} :
            \/ Contains(col_lower, <<"f","e","e">>)
            \/ Contains(col_lower, <<"p","r","o","c">>)}}

\* line 379
NotableColumns == {<<"S","t","a","t","u","s">>, <<"L","a","s","t"," ","A","c","t","i","o","n">>, <<"P","r","i","o","r","i","t","y">>}

\* lines 314-338: the locals of the handler for a report with these labels
\* (caseid_col as a label, <<>> for None; <<>> is no label a loop of line 315 accepts)
ReportColumnsOf(columns) ==
    Only({ [columns     |-> columns,
            caseid_col  |-> IF at = 0 THEN <<>> ELSE columns[at],
            fee_columns |-> fee_columns(columns)] :
           at \in {caseid_col(columns)} })

\* line 325, df[caseid_col].astype(str), on one row
AsTypeStr(df, r) == [r EXCEPT ![df.caseid_col] = Txt(PyStr(@))]

\* lines 362-373: a fee column with a value that is not NaN
FeeColumnUpdate(md, mask, col, new_value, updates) ==
    LET fee_amount == CleanCurrency(PyStr(new_value))
        cur        == FirstOf(md, mask, col)
        f          == IF IsNa(cur) THEN [ok |-> TRUE, v |-> 0] ELSE FloatOf(cur)
    IN  IF fee_amount > 0 /\ f.ok
        THEN [md      |-> SetCells(md, mask, col, Num(f.v + fee_amount)),
              updates |-> Append(updates, col)]
        ELSE [md |-> md, updates |-> updates]

\* lines 374-380: any other column, and a fee column whose value is NaN
PlainColumnUpdate(md, mask, col, new_value, updates) ==
    LET old_value == FirstOf(md, mask, col)
    IN  IF IsNa(old_value) \/ PyStr(old_value) # PyStr(new_value)
        THEN [md      |-> SetCells(md, mask, col, new_value),
              updates |-> IF col \in NotableColumns THEN Append(updates, col) ELSE updates]
        ELSE [md |-> md, updates |-> updates]

\* lines 356-380: one column of the row; u is [md, updates] so far
ColumnUpdate(u, mask, df, r, col) ==
    Only({ IF col \in df.fee_columns /\ ~IsNa(r[col])
           THEN FeeColumnUpdate(m1, mask, col, r[col], u.updates)
           ELSE PlainColumnUpdate(m1, mask, col, r[col], u.updates) :
           m1 \in {EnsureColumn(u.md, col, None)} })

\* lines 355-380: the loop over df.columns from position i on
RECURSIVE UpdateColumns(_, _, _, _, _)
UpdateColumns(u, mask, df, r, i) ==
    IF i > Len(df.columns) THEN u
    ELSE Only({ UpdateColumns(next, mask, df, r, i + 1) :
                next \in {ColumnUpdate(u, mask, df, r, df.columns[i])} })

\* lines 389-391: row.to_dict() with the identifier key renamed to 'CaseID' (the
\* renamed key moves to the end of the dict)
NewRowKeys(df) ==
    IF df.caseid_col # CaseID
    THEN Append(SelectSeq(df.columns, LAMBDA c : c # df.caseid_col /\ c # CaseID), CaseID)
    ELSE df.columns

NewRowValues(df, r) ==
    [c \in Range(NewRowKeys(df)) |-> IF c = CaseID THEN r[df.caseid_col] ELSE r[c]]

\* lines 343-393: one iteration of the loop over the rows of df (r after astype)
UpsertRow(md, upd, df, r) ==
    Only({ IF case_id = <<>> \/ case_id = <<"n","a","n">>
           THEN [md |-> md, upd |-> upd]
           ELSE IF mask # {}
           THEN Only({ [md  |-> u.md,
                        upd |-> IF u.updates # <<>> THEN Append(upd, case_id) ELSE upd] :
                       u \in {UpdateColumns([md |-> md, updates |-> <<>>], mask, df, r, 1)} })
           ELSE [md  |-> ConcatRow(md, NewRowKeys(df), NewRowValues(df, r)),
                 upd |-> Append(upd, case_id)] :
           case_id \in {Strip(PyStr(r[df.caseid_col]))},
           mask    \in {IF HasColumn(md, CaseID)
                        THEN Mask(md, Strip(PyStr(r[df.caseid_col]))) ELSE {}} })

(***************************************************************************)
(* main(), lines 756-762: the total over the payment columns.  Series.sum  *)
(* skips NaN/None; a str cell in a summed column makes the sum, or the     *)
(* addition to the float total, raise TypeError.                           *)
(***************************************************************************)
payment_columns(md) ==
    {md.columns[i] : i \in {j \in 1..Len(md.columns) :
        \/ Contains(md.columns[j], <<"F","e","e">>)
        \/ Contains(md.columns[j], <<"P","a","y","m","e","n","t">>)
        \/ Contains(md.columns[j], <<"P","r","o","c">>)}}

RECURSIVE SumCells(_, _, _)
SumCells(md, col, i) ==
    IF i > Len(md.rows) THEN 0
    ELSE (IF md.rows[i][col].t = "num" THEN md.rows[i][col].n ELSE 0)
         + SumCells(md, col, i + 1)

RECURSIVE SumColumns(_, _)
SumColumns(md, cols) ==
    IF cols = {} THEN 0
    ELSE LET c == CHOOSE x \in cols : TRUE
         IN  SumCells(md, c, 1) + SumColumns(md, cols \ {c})

TotalRaises(md) ==
    \E c \in payment_columns(md) : \E i \in 1..Len(md.rows) : md.rows[i][c].t = "txt"

total_commission_of(md) == SumColumns(md, payment_columns(md))

(***************************************************************************)
(* Bound of the model: the data rows and text lines read from all the      *)
(* attachments of all runs together.                                       *)
(***************************************************************************)
MaxRead == 2

(***************************************************************************)
(* Inputs: what the attachments of a run may hold                          *)
(***************************************************************************)
IdA == <<"1","0","0","2","3","4">>

IdB == <<"2","0","0","3","4","5">>

ProcFee == <<"P","r","o","c"," ","F","e","e">>

AdminFee == <<"A","d","m","i","n"," ","F","e","e">>

Status == <<"S","t","a","t","u","s">>

Notes == <<"N","o","t","e","s">>

AmountPaid == <<"A","m","o","u","n","t"," ","P","a","i","d">>

OldCaseIdRef == <<"O","l","d"," ","C","a","s","e"," ","I","D"," ","R","e","f">>

\* first rows of PDF tables
HeaderTyped == <<Txt(<<"C","a","s","e"," ","I","D">>), Txt(<<"A","m","o","u","n","t">>), Txt(<<"P","a","y","m","e","n","t"," ","T","y","p","e">>)>>

HeaderUntyped == <<Txt(<<"C","a","s","e"," ","I","D">>), Txt(<<"A","m","o","u","n","t">>), Txt(Notes)>>

HeaderForeign == <<Txt(<<"N","a","m","e">>), Txt(Notes), None>>

PdfHeaders == {HeaderTyped, HeaderUntyped, HeaderForeign}

\* the first row of the example of the schema detector's contract
HeaderFeePaid == <<Txt(<<"C","a","s","e"," ","I","D">>), Txt(<<"F","e","e"," ","P","a","i","d">>), Txt(<<"P","a","y","m","e","n","t"," ","T","y","p","e">>)>>

\* header cells for the schema detector taken alone
HeaderCells ==
    { Txt(<<"C","a","s","e"," ","I","D">>), Txt(<<"F","e","e"," ","P","a","i","d">>), Txt(<<"P","a","y","m","e","n","t"," ","T","y","p","e">>),
      Txt(<<"A","m","o","u","n","t">>), Txt(Notes), None }

\* bound: the columns of a table
MaxColumns == 3

\* first rows of tables of MaxColumns columns
HeaderRows == [1..MaxColumns -> HeaderCells]

\* data rows of PDF tables (cells are str or None)
PdfRows ==
    { <<Txt(<<" ">> \o IdA \o <<" ">>), Txt(<<"£","5","0",".","0","0">>), Txt(ProcFee)>>,
      <<Txt(IdB), Txt(<<"£","5","0",".","0","0">>), Txt(ProcFee)>>,
      <<Txt(IdA), Txt(<<"2","5",".","5","0">>), Txt(<<"p","r","o","c"," ","f","e","e">>)>>,
      <<Txt(<<"T","o","t","a","l">>), Txt(<<"£","5","0",".","0","0">>), Txt(ProcFee)>>,
      <<Txt(IdA), Txt(<<"-","5",".","0","0">>), Txt(ProcFee)>>,
      <<None, Txt(<<"N","/","A">>), None>>,
      <<Txt(IdB), Txt(<<"2","5",".","5","0">>), None>> }

\* lines of page text
TextLines ==
    { IdA \o <<" ","£","5","0",".","0","0"," ","p","r","o","c">>,
      <<"T","o","t","a","l"," ","£","7","5",".","0","0">> }

\* the characters _clean_currency removes, as a token may carry them
Decoration == {"£", ",", " "}

\* s with character c put after its first p characters
InsertAt(s, p, c) == SubSeq(s, 1, p) \o <<c>> \o SubSeq(s, p + 1, Len(s))

\* s without its character at position p
RemoveAt(s, p) == SubSeq(s, 1, p - 1) \o SubSeq(s, p + 1, Len(s))

\* amount tokens as written: plain, decorated, empty, not a number, with a minus sign
PlainTokens ==
    { <<"1","2","3","4",".","5","6">>, <<"£","1",",","2","3","4",".","5","6">>, <<" ","£"," ","1",",","2","3","4",".","5","6"," ">>,
      <<>>, <<"N","/","A">>, <<"-","5",".","0","0">> }

\* bound: the characters of Decoration put into a token of PlainTokens
MaxInserted == 1

\* the tokens of S with at most n characters of Decoration put in anywhere
RECURSIVE Decorated(_, _)
Decorated(S, n) ==
    IF n = 0 THEN S
    ELSE LET fewer == Decorated(S, n - 1)
         IN  fewer \cup UNION { { InsertAt(t, p, c) : p \in 0..Len(t), c \in Decoration } :
                                 t \in fewer }

\* data rows of a table for the normalizer taken alone: one row per token
AmountRows == { <<Txt(IdA), Txt(t), Txt(ProcFee)>> : t \in Decorated(PlainTokens, MaxInserted) }

\* bound: the fee-style updates of a sequence
MaxApplied == 3

\* data rows of a table for _update_payment taken alone: two cases, two categories
\* and two amounts, all valid
FeeRows ==
    { <<Txt(id), Txt(amount), Txt(type)>> :
        id \in {IdA, IdB},
        amount \in {<<"£","5","0",".","0","0">>, <<"2","5",".","5","0">>},
        type \in {ProcFee, Commission} }

\* the example line of the scanner's contract
ExampleLine == <<"C","a","s","e"," ","1","0","0","2","3","4","5"," ","p","a","y","m","e","n","t"," ","£","7","5",".","0","0"," ","p","r","o","c"," ","f","e","e">>

\* the words of page text: case numbers of 7 and of 5 digits, amounts with and without
\* the pound sign, a zero amount, and the three keywords in different cases
PageWords ==
    { <<"1","0","0","2","3","4","5">>, <<"1","2","3","4","5">>, <<"£","7","5",".","0","0">>, <<"7","5",".","0","0">>, <<"£","0">>,
      <<"P","a","c","k","a","g","i","n","g">>, <<"p","r","o","c">>, <<"B","R","O","K","E","R">> }

\* bound: the words of a line of page text
MaxWords == 4

\* the lines of at most n words, one space between two words
RECURSIVE WordLines(_)
WordLines(n) ==
    IF n = 0 THEN {<<>>}
    ELSE LET shorter == WordLines(n - 1)
         IN  shorter \cup { IF l = <<>> THEN w ELSE l \o <<" ">> \o w :
                             l \in shorter, w \in PageWords }

\* lines of page text for the scanner taken alone
PageLines == {ExampleLine} \cup WordLines(MaxWords)

\* column labels of introducer reports
ReportColumns ==
    { <<CaseID, ProcFee, Status>>,
      <<<<"C","a","s","e"," ","I","D">>, AdminFee, Notes>>,
      <<<<"N","a","m","e">>, AdminFee, Notes>> }

\* column labels of reports for the report reader taken alone
ReportLabels ==
    ReportColumns \cup { <<CaseID, AmountPaid, Status>>, <<OldCaseIdRef, AdminFee, Notes>> }

\* rows of introducer reports, cell by position
ReportCells ==
    { <<Txt(IdA), Num(2000), Txt(<<"O","p","e","n">>)>>,
      <<Txt(IdA), Num(500), Txt(<<"C","o","m","p","l","e","t","e">>)>>,
      <<Txt(<<" ">> \o IdA \o <<" ">>), Num(500), Txt(<<"O","p","e","n">>)>>,
      <<Txt(IdA), Txt(<<"£","2","0",".","0","0">>), Txt(<<"O","p","e","n">>)>>,
      <<Txt(IdB), Num(-500), Txt(<<"O","p","e","n">>)>>,
      <<Txt(IdA), NaN, Txt(<<"C","l","o","s","e","d">>)>>,
      <<NaN, Num(500), Txt(<<"O","p","e","n">>)>> }

\* the row of df with these cells under these labels
RowOf(columns, cells) ==
    [c \in Range(columns) |-> cells[CHOOSE i \in 1..Len(columns) : columns[i] = c]]

(***************************************************************************)
(* State                                                                   *)
(***************************************************************************)
VARIABLES
    master_file,       \* the ledger as last saved to MASTER_DATA_FILE
    master_data,       \* DataProcessor.master_data
    updates_made,      \* DataProcessor.updates_made
    pc,                \* where main() and the handler it called stand
    error,             \* the exception that ended the run, "none" otherwise
    unread,            \* the run ended with attachments its loops had not taken
    read,              \* data rows and text lines read so far
    tables_found,      \* the local of line 134
    accepted,          \* table rows of the open PDF that led to _update_payment
    cols,              \* the column locals of the handler (lines 155-175, 314-338)
    last,              \* the last step of the handler's loop: its kind, its input,
                       \* its _update_payment call, the ledger and change list before it
    applied,           \* the _update_payment calls of this run that returned, in order
    total_commission   \* the total of lines 760-762

vars == <<master_file, master_data, updates_made, pc, error, unread, read,
          tables_found, accepted, cols, last, applied, total_commission>>

NoColumns == [columns |-> <<>>]

NoLast == [by |-> "none", row |-> <<>>, call |-> NoCall, md |-> EmptyFrame, upd |-> <<>>]

\* the step of kind by on input r, making call c, taken in the current state
Step(by, r, c) ==
    [by |-> by, row |-> r, call |-> c, md |-> master_data, upd |-> updates_made]

Init ==
    /\ master_file = EmptyFrame
    /\ master_data = EmptyFrame
    /\ updates_made = <<>>
    /\ pc = "idle"
    /\ error = "none"
    /\ unread = FALSE
    /\ read = 0
    /\ tables_found = FALSE
    /\ accepted = 0
    /\ cols = NoColumns
    /\ last = NoLast
    /\ applied = <<>>
    /\ total_commission = 0

(***************************************************************************)
(* DataProcessor.__init__ / load_master_data / save_master_data.  The      *)
(* workbook keeps float and str cells and reads an empty cell back as NaN; *)
(* the CaseID column is cast to str on load.                               *)
(***************************************************************************)
LoadMasterData(file) ==
    [columns |-> file.columns,
     rows    |-> [i \in 1..Len(file.rows) |->
        [c \in DOMAIN file.rows[i] |->
            LET v == IF IsNa(file.rows[i][c]) THEN NaN ELSE file.rows[i][c]
            IN  IF c = CaseID THEN Txt(PyStr(v)) ELSE v]]]

\* the locals of a handler that has returned
Returned ==
    /\ tables_found' = FALSE
    /\ accepted' = 0
    /\ cols' = NoColumns
    /\ last' = NoLast

\* main() is called: a new DataProcessor over the saved file (line 732)
StartRun ==
    /\ pc \in {"idle", "done", "raised"}
    /\ master_data' = LoadMasterData(master_file)
    /\ updates_made' = <<>>
    /\ pc' = "pdfs"
    /\ error' = "none"
    /\ unread' = FALSE
    /\ total_commission' = 0
    /\ applied' = <<>>
    /\ Returned
    /\ UNCHANGED <<master_file, read>>

\* line 737 with pdfplumber.open raising: the handler re-raises (208), main re-raises (780)
PdfUnreadable ==
    /\ pc = "pdfs"
    /\ pc' = "raised"
    /\ error' = "decode"
    /\ unread' \in BOOLEAN
    /\ UNCHANGED <<master_file, master_data, updates_made, read, tables_found,
                   accepted, cols, last, total_commission, applied>>

\* lines 133-134: the next PDF opens
PdfOpen ==
    /\ pc = "pdfs"
    /\ pc' = "tables"
    /\ tables_found' = FALSE
    /\ accepted' = 0
    /\ UNCHANGED <<master_file, master_data, updates_made, error, unread, read,
                   cols, last, total_commission, applied>>

\* lines 144-183: the next table, with first row h; a table without a data row is
\* passed over (145), and so is one without a Case ID or a Paid column (178)
TableBeginOf(headers) ==
    /\ pc = "tables"
    /\ \E h \in headers : \E short \in BOOLEAN :
        IF short
        THEN UNCHANGED <<pc, tables_found, cols, last>>
        ELSE \E found \in {TableColumns(h)} :
             /\ cols' = found
             /\ last' = Step("header", h, NoCall)
             /\ IF TableUsable(found)
                THEN /\ read < MaxRead
                     /\ tables_found' = TRUE
                     /\ pc' = "row1"
                ELSE UNCHANGED <<pc, tables_found>>
    /\ UNCHANGED <<master_file, master_data, updates_made, error, unread, read,
                   accepted, total_commission, applied>>

TableBegin == TableBeginOf(PdfHeaders)

\* the effect of the _update_payment call c; an exception leaves the handler and main
Apply(c, next_pc) ==
    IF c.made
    THEN \E res \in {UpdatePayment(master_data, updates_made,
                                   c.case_id, c.payment_type, c.amount)} :
             /\ master_data' = res.md
             /\ updates_made' = res.upd
             /\ pc' = IF res.raised THEN "raised" ELSE next_pc
             /\ error' = IF res.raised THEN "value" ELSE error
             /\ IF res.raised THEN unread' \in BOOLEAN ELSE UNCHANGED unread
             /\ applied' = IF res.raised THEN applied ELSE Append(applied, c)
    ELSE /\ UNCHANGED <<master_data, updates_made, error, unread, applied>>
         /\ pc' = next_pc

\* lines 186-199: one data row of the current table, of which most are read
TableRowOf(rows, most) ==
    /\ pc \in {"row1", "rows"}
    /\ read < most
    /\ read' = read + 1
    /\ \E r \in rows : \E c \in {TableRowCall(cols, r)} :
        /\ last' = Step("table", r, c)
        /\ accepted' = IF c.made THEN accepted + 1 ELSE accepted
        /\ Apply(c, "rows")
    /\ UNCHANGED <<master_file, tables_found, cols, total_commission>>

TableRow == TableRowOf(PdfRows, MaxRead)

\* the table has no further row
TableEnd ==
    /\ pc = "rows"
    /\ pc' = "tables"
    /\ UNCHANGED <<master_file, master_data, updates_made, error, unread, read,
                   tables_found, accepted, cols, last, total_commission,
                   applied>>

\* lines 202-204, no table was found: the fallback is called
FallbackBegin ==
    /\ pc = "tables"
    /\ ~tables_found
    /\ pc' = "lines"
    /\ UNCHANGED <<master_file, master_data, updates_made, error, unread, read,
                   tables_found, accepted, cols, last, total_commission,
                   applied>>

\* lines 202-204, a table was found: the handler returns
PdfEnd ==
    /\ pc = "tables"
    /\ tables_found
    /\ pc' = "pdfs"
    /\ Returned
    /\ UNCHANGED <<master_file, master_data, updates_made, error, unread, read,
                   total_commission, applied>>

\* lines 228-254: one line of text
FallbackLineOf(lines) ==
    /\ pc = "lines"
    /\ read < MaxRead
    /\ read' = read + 1
    /\ \E l \in lines : \E c \in {LineCall(l)} :
        /\ last' = Step("line", l, c)
        /\ Apply(c, "lines")
    /\ UNCHANGED <<master_file, tables_found, accepted, cols, total_commission>>

FallbackLine == FallbackLineOf(TextLines)

\* the fallback and the handler return
FallbackEnd ==
    /\ pc = "lines"
    /\ pc' = "pdfs"
    /\ Returned
    /\ UNCHANGED <<master_file, master_data, updates_made, error, unread, read,
                   total_commission, applied>>

\* line 740: the loop over the PDFs is over
PdfsDone ==
    /\ pc = "pdfs"
    /\ pc' = "excels"
    /\ UNCHANGED <<master_file, master_data, updates_made, error, unread, read,
                   tables_found, accepted, cols, last, total_commission,
                   applied>>

\* lines 305-308 raising: the handler re-raises (397), main re-raises (780)
ExcelUnreadable ==
    /\ pc = "excels"
    /\ pc' = "raised"
    /\ error' = "decode"
    /\ unread' \in BOOLEAN
    /\ Returned
    /\ UNCHANGED <<master_file, master_data, updates_made, read, total_commission,
                   applied>>

\* lines 305-340: the next report is read; without an identifier column the handler
\* returns (320-322)
\* ExcelOpenOf with the ledger columns of lines 330-331 set up before the test of line
\* 320: what C18 has to tell from ExcelOpenOf
ExcelOpenOfSetupFirst(labels) ==
    /\ pc = "excels"
    /\ \E columns \in labels : \E df \in {ReportColumnsOf(columns)} :
        /\ cols' = df
        /\ last' = Step("columns", columns, NoCall)
        /\ master_data' = IF IsEmpty(master_data) THEN FrameOfColumns(columns)
                           ELSE master_data
        /\ pc' = IF df.caseid_col = <<>> THEN pc ELSE "xrows"
    /\ UNCHANGED <<master_file, updates_made, error, unread, read, tables_found,
                   accepted, total_commission, applied>>

ExcelOpenOf(labels) ==
    /\ pc = "excels"
    /\ \E columns \in labels : \E df \in {ReportColumnsOf(columns)} :
        /\ cols' = df
        /\ last' = Step("columns", columns, NoCall)
        /\ IF df.caseid_col = <<>>
           THEN UNCHANGED <<master_data, pc>>
           ELSE /\ master_data' = IF IsEmpty(master_data) THEN FrameOfColumns(columns)
                                  ELSE master_data
                /\ pc' = "xrows"
    /\ UNCHANGED <<master_file, updates_made, error, unread, read, tables_found,
                   accepted, total_commission, applied>>

ExcelOpen == ExcelOpenOf(ReportColumns)

\* lines 343-393: one row of the report
ExcelRow ==
    /\ pc = "xrows"
    /\ read < MaxRead
    /\ read' = read + 1
    /\ \E cells \in ReportCells : \E r \in {AsTypeStr(cols, RowOf(cols.columns, cells))} :
        \E res \in {UpsertRow(master_data, updates_made, cols, r)} :
            /\ last' = Step("report", r, NoCall)
            /\ master_data' = res.md
            /\ updates_made' = res.upd
    /\ UNCHANGED <<master_file, pc, error, unread, tables_found, accepted, cols,
                   total_commission, applied>>

\* the report has no further row: the handler returns
ExcelEnd ==
    /\ pc = "xrows"
    /\ pc' = "excels"
    /\ Returned
    /\ UNCHANGED <<master_file, master_data, updates_made, error, unread, read,
                   total_commission, applied>>

\* lines 745-762: the ledger is saved, then the total is computed
Finish ==
    /\ pc = "excels"
    /\ master_file' = master_data
    /\ IF TotalRaises(master_data)
       THEN /\ pc' = "raised"
            /\ error' = "type"
            /\ UNCHANGED total_commission
       ELSE /\ pc' = "done"
            /\ total_commission' = total_commission_of(master_data)
            /\ UNCHANGED error
    /\ Returned
    /\ UNCHANGED <<master_data, updates_made, unread, read, applied>>

Next ==
    \/ StartRun
    \/ PdfUnreadable
    \/ PdfOpen
    \/ TableBegin
    \/ TableRow
    \/ TableEnd
    \/ FallbackBegin
    \/ PdfEnd
    \/ FallbackLine
    \/ FallbackEnd
    \/ PdfsDone
    \/ ExcelUnreadable
    \/ ExcelOpen
    \/ ExcelRow
    \/ ExcelEnd
    \/ Finish

Spec == Init /\ [][Next]_vars

(***************************************************************************)
(* The fallback scanner taken alone: the first run has opened its first    *)
(* PDF, no table was found, and the scanner reads the first line of the    *)
(* page, which is any line of PageLines.                                   *)
(***************************************************************************)
ScanInit ==
    /\ master_file = EmptyFrame
    /\ master_data = LoadMasterData(EmptyFrame)
    /\ updates_made = <<>>
    /\ pc = "lines"
    /\ error = "none"
    /\ unread = FALSE
    /\ read = 0
    /\ tables_found = FALSE
    /\ accepted = 0
    /\ cols = NoColumns
    /\ last = NoLast
    /\ applied = <<>>
    /\ total_commission = 0

ScanNext == read = 0 /\ FallbackLineOf(PageLines)

ScanSpec == ScanInit /\ [][ScanNext]_vars

(***************************************************************************)
(* The schema detector taken alone: the first run has opened its first     *)
(* PDF, and the table loop comes to tables whose first row is any row of   *)
(* HeaderRows.                                                             *)
(***************************************************************************)
SchemaInit ==
    /\ master_file = EmptyFrame
    /\ master_data = LoadMasterData(EmptyFrame)
    /\ updates_made = <<>>
    /\ pc = "tables"
    /\ error = "none"
    /\ unread = FALSE
    /\ read = 0
    /\ tables_found = FALSE
    /\ accepted = 0
    /\ cols = NoColumns
    /\ last = NoLast
    /\ applied = <<>>
    /\ total_commission = 0

SchemaNext == TableBeginOf(HeaderRows)

SchemaSpec == SchemaInit /\ [][SchemaNext]_vars

(***************************************************************************)
(* The report reader taken alone: the first run had no PDF and comes to    *)
(* its reports, whose column labels are any of ReportLabels.               *)
(***************************************************************************)
ReportInit ==
    /\ master_file = EmptyFrame
    /\ master_data = LoadMasterData(EmptyFrame)
    /\ updates_made = <<>>
    /\ pc = "excels"
    /\ error = "none"
    /\ unread = FALSE
    /\ read = 0
    /\ tables_found = FALSE
    /\ accepted = 0
    /\ cols = NoColumns
    /\ last = NoLast
    /\ applied = <<>>
    /\ total_commission = 0

ReportNext ==
    \/ ExcelOpenOf(ReportLabels)
    \/ ExcelRow
    \/ ExcelEnd

ReportSpec == ReportInit /\ [][ReportNext]_vars

(***************************************************************************)
(* _update_payment taken alone: the first run starts from an empty ledger, *)
(* has opened its first PDF and found a table with the headers             *)
(* HeaderTyped, and the row loop reads rows of FeeRows, each of which      *)
(* leads to a call.                                                        *)
(***************************************************************************)
FeeInit ==
    /\ master_file = EmptyFrame
    /\ master_data = LoadMasterData(EmptyFrame)
    /\ updates_made = <<>>
    /\ pc = "row1"
    /\ error = "none"
    /\ unread = FALSE
    /\ read = 0
    /\ tables_found = TRUE
    /\ accepted = 0
    /\ cols = TableColumns(HeaderTyped)
    /\ last = [by |-> "header", row |-> HeaderTyped, call |-> NoCall,
               md |-> EmptyFrame, upd |-> <<>>]
    /\ applied = <<>>
    /\ total_commission = 0

FeeNext == TableRowOf(FeeRows, MaxApplied)

FeeSpec == FeeInit /\ [][FeeNext]_vars

(***************************************************************************)
(* The amount normalizer taken alone: the first run has opened its first   *)
(* PDF and found a table with the headers HeaderTyped, and the row loop    *)
(* reads its first data row, whose amount cell is any token of AmountRows. *)
(***************************************************************************)
AmountInit ==
    /\ master_file = EmptyFrame
    /\ master_data = LoadMasterData(EmptyFrame)
    /\ updates_made = <<>>
    /\ pc = "row1"
    /\ error = "none"
    /\ unread = FALSE
    /\ read = 0
    /\ tables_found = TRUE
    /\ accepted = 0
    /\ cols = TableColumns(HeaderTyped)
    /\ last = [by |-> "header", row |-> HeaderTyped, call |-> NoCall,
               md |-> EmptyFrame, upd |-> <<>>]
    /\ applied = <<>>
    /\ total_commission = 0

AmountNext == TableRowOf(AmountRows, 1)

AmountSpec == AmountInit /\ [][AmountNext]_vars

(***************************************************************************)
(* Properties.  last holds the ledger and the change list as they were     *)
(* before the last step of a loop, so a property of one operation reads    *)
(* as a property of the state that follows it.                             *)
(***************************************************************************)
\* the last step made a fee-style update: an _update_payment call
FeeStep == last.by \in {"table", "line"} /\ last.call.made

\* the identifier the last step read from its report row (line 344)
ReportId == Strip(PyStr(last.row[cols.caseid_col]))

\* the last step took a report row through the upsert (lines 346-393)
ReportStep == last.by = "report" /\ ReportId # <<>> /\ ReportId # <<"n","a","n">>

\* no row of md is the row of case_id
Absent(md, case_id) == ~HasColumn(md, CaseID) \/ Mask(md, case_id) = {}

\* what the cell of row i under col counts for: missing or undefined is 0
Amount(md, i, col) ==
    IF ~HasColumn(md, col) THEN 0
    ELSE IF IsNa(md.rows[i][col]) THEN 0
    ELSE CleanCurrency(PyStr(md.rows[i][col]))

\* C1: the ledger holds at most one row per case identifier, identifiers being
\* compared after trimming surrounding whitespace; a report row with a padded
\* identifier applied twice does not make two rows.
C1_OneRowPerCase ==
    HasColumn(master_data, CaseID) =>
        \A i, j \in 1..Len(master_data.rows) :
            i # j => Strip(PyStr(master_data.rows[i][CaseID]))
                         # Strip(PyStr(master_data.rows[j][CaseID]))

\* C2: a fee-style update (c, k, a) for a case already in the ledger goes through and
\* leaves field k of c at its previous value, missing or undefined counted as 0, plus
\* a, in exactly one row.
C2_FeeUpdateIsAdditive ==
    (FeeStep /\ ~Absent(last.md, last.call.case_id)) =>
        /\ pc # "raised"
        /\ Cardinality(Mask(master_data, last.call.case_id)) = 1
        /\ \A i \in Mask(last.md, last.call.case_id) :
              master_data.rows[i][last.call.payment_type]
                  = Num(Amount(last.md, i, last.call.payment_type) + last.call.amount)

\* the defaults a newly created column gives the rows that were there
NeutralDefaults == {None, NaN, Num(0)}

\* the ledger has one row more than before the last step, the rows that were there
\* keep every value they had, and the change list keeps the entries it had
NewCaseAdded ==
    /\ Len(master_data.rows) = Len(last.md.rows) + 1
    /\ \A i \in 1..Len(last.md.rows) : \A c \in DOMAIN master_data.rows[i] :
          IF c \in DOMAIN last.md.rows[i]
          THEN master_data.rows[i][c] = last.md.rows[i][c]
          ELSE master_data.rows[i][c] \in NeutralDefaults
    /\ Len(updates_made) >= Len(last.upd)
    /\ SubSeq(updates_made, 1, Len(last.upd)) = last.upd

\* C3: an extraction record, fee-style or report-style, for an identifier absent from
\* the ledger adds exactly one row; every row that was there keeps every value it had
\* (a new column gives it a neutral default) and the change list keeps its entries.
C3_NewCaseAddsOneRow ==
    /\ (FeeStep /\ Absent(last.md, last.call.case_id)) => NewCaseAdded
    /\ (ReportStep /\ Absent(last.md, ReportId)) => NewCaseAdded

\* a fee-style update for a new case, with a category new to a ledger that has rows
C3_Witness ==
    /\ FeeStep
    /\ Absent(last.md, last.call.case_id)
    /\ Len(last.md.rows) >= 1
    /\ ~HasColumn(last.md, last.call.payment_type)
    /\ Len(master_data.rows) = Len(last.md.rows) + 1

\* C4: a report row for a case already in the ledger leaves every fee column that
\* comes with a positive amount at the previous ledger value plus that amount, and
\* every ordinary field at the incoming value.
C4_ReportUpdateMerges ==
    (ReportStep /\ ~Absent(last.md, ReportId)) =>
        \A i \in Mask(last.md, ReportId) : \A c \in Range(cols.columns) :
            IF c \in cols.fee_columns
            THEN (~IsNa(last.row[c]) /\ CleanCurrency(PyStr(last.row[c])) > 0) =>
                    master_data.rows[i][c]
                        = Num(Amount(last.md, i, c) + CleanCurrency(PyStr(last.row[c])))
            ELSE PyStr(master_data.rows[i][c]) = PyStr(last.row[c])

\* C5: every applied extraction record appends its case identifier to the change list
\* exactly once: each fee-style update, each report row inserted as a new case, and
\* each report row that changes any field of an existing case.
C5_EveryChangeIsRecorded ==
    /\ (FeeStep /\ pc # "raised") =>
          updates_made = Append(last.upd, last.call.case_id)
    /\ (ReportStep /\ master_data # last.md) =>
          updates_made = Append(last.upd, ReportId)

\* C6: for one PDF the fallback runs if and only if no table of the document yielded
\* an accepted row: the handler goes on to the fallback only with no accepted row, and
\* returns without it only with one.
C6_FallbackIffNoAcceptedRow ==
    [][/\ (pc = "tables" /\ pc' = "lines") => accepted = 0
       /\ (pc = "tables" /\ pc' = "pdfs") => accepted > 0]_vars

\* C7: the table path applies a fee-style update for a row only if the headers gave
\* an identifier column and an amount column, the trimmed identifier is non-empty, not
\* "nan" and all digits, and the normalized amount is > 0; a table whose headers give
\* neither role changes nothing and raises nothing.
C7_TableUpdatesOnlyFromValidRows ==
    /\ (/\ last.by = "table"
        /\ (last.call.made \/ master_data # last.md \/ updates_made # last.upd)) =>
          /\ TableUsable(cols)
          /\ Strip(PyStr(last.row[cols.case_id_col])) # <<>>
          /\ Strip(PyStr(last.row[cols.case_id_col])) # <<"n","a","n">>
          /\ IsDigit(Strip(PyStr(last.row[cols.case_id_col])))
          /\ CleanCurrency(PyStr(last.row[cols.paid_col])) > 0
    /\ (last.by = "header" /\ ~TableUsable(cols)) =>
          /\ master_data = last.md
          /\ updates_made = last.upd
          /\ pc # "raised"
          /\ error = "none"

\* a table without the two columns is passed over in a document one of whose tables
\* had a row applied
C7_Witness ==
    /\ last.by = "header"
    /\ ~TableUsable(cols)
    /\ accepted > 0
    /\ Len(master_data.rows) >= 1

\* C8: a failure while decoding or processing one document ends that document only:
\* the run has not ended on it with documents left unprocessed.
C8_FailureAbortsOnlyTheDocument ==
    (pc = "raised" /\ error \in {"decode", "value"}) => ~unread

\* C9: in every reachable ledger every fee column holds a value >= 0.
C9_FeeFieldsNonNegative ==
    \A i \in 1..Len(master_data.rows) : \A c \in fee_columns(master_data.columns) :
        master_data.rows[i][c].t = "num" => master_data.rows[i][c].n >= 0

\* the fee-like names of C10: "fee", "proc", "payment" or "paid", in any case
FeeLikeName(c) ==
    \E lower \in {Lower(c)} :
        \/ Contains(lower, <<"f","e","e">>)
        \/ Contains(lower, <<"p","r","o","c">>)
        \/ Contains(lower, <<"p","a","y","m","e","n","t">>)
        \/ Contains(lower, <<"p","a","i","d">>)

\* C10: the total of a run is the sum, over all ledger rows, of every fee-like column.
C10_TotalSumsEveryFeeColumn ==
    pc = "done" =>
        total_commission
            = SumColumns(master_data, {c \in Range(master_data.columns) : FeeLikeName(c)})

\* a maximal run of 6 or of 7 digits in line
HasCaseRun(line) ==
    \E i \in 1..Len(line) : \E n \in {6, 7} :
        /\ AllDigits(line, i, n)
        /\ (i = 1 \/ ~IsDigitChar(line[i - 1]))
        /\ (i + n > Len(line) \/ ~IsDigitChar(line[i + n]))

\* a pound sign in line with a digit somewhere after it
HasPoundAmount(line) ==
    \E i \in 1..Len(line) : line[i] = "£" /\ \E j \in (i + 1)..Len(line) : IsDigitChar(line[j])

\* the category of a line by the precedence of its keywords, in any case
KeywordCategory(line) ==
    \E lower \in {Lower(line)} :
        IF Contains(lower, <<"p","a","c","k","a","g","i","n","g">>)
        THEN last.call.payment_type = <<"P","a","c","k","a","g","i","n","g"," ","F","e","e"," ","P","a","y","m","e","n","t">>
        ELSE IF Contains(lower, <<"p","r","o","c">>)
        THEN last.call.payment_type = ProcFee
        ELSE IF Contains(lower, <<"b","r","o","k","e","r">>)
        THEN last.call.payment_type = <<"B","r","o","k","e","r"," ","F","e","e">>
        ELSE last.call.payment_type = Commission

SameUnderDecoration(token, amount) ==
    /\ \A p \in 0..Len(token) : \A c \in Decoration :
          CleanCurrency(InsertAt(token, p, c)) = amount
    /\ \A p \in 1..Len(token) :
          token[p] \in Decoration => CleanCurrency(RemoveAt(token, p)) = amount
    /\ token \in {<<"1","2","3","4",".","5","6">>, <<"£","1",",","2","3","4",".","5","6">>, <<" ","£"," ","1",",","2","3","4",".","5","6"," ">>}
          => amount = 123456
    /\ token \in {<<>>, <<"N","/","A">>} => amount = 0
    /\ pc # "raised"

\* C12: _clean_currency gives a token the same value whatever pound signs, commas and
\* whitespace are put into it or taken out of it ("£1,234.56", "1234.56" and
\* " £ 1,234.56 " all give 1234.56), gives 0 for "" and "N/A" without raising, and
\* never gives a negative value.
C12_NormalizerIgnoresDecoration ==
    (last.by = "table" /\ TableUsable(cols)) =>
        \E token \in {PyStr(last.row[cols.paid_col])} : \E amount \in {CleanCurrency(token)} :
            /\ SameUnderDecoration(token, amount)
            /\ amount >= 0

\* C12 as the code has it: the same value under decoration and 0 for "" and "N/A",
\* but a token with a minus sign gives a negative value ("-5.00" gives -5.00), which
\* the row loop discards like 0: no update is made and the ledger is left as it was.
C12_NormalizerKeepsSign ==
    (last.by = "table" /\ TableUsable(cols)) =>
        \E token \in {PyStr(last.row[cols.paid_col])} : \E amount \in {CleanCurrency(token)} :
            /\ SameUnderDecoration(token, amount)
            /\ amount < 0 => "-" \in Range(token)
            /\ RemoveChars(token, Decoration) = <<"-","5",".","0","0">> => amount = -500
            /\ amount <= 0 => (~last.call.made /\ master_data = last.md
                                /\ updates_made = last.upd)

\* a decorated token with a minus sign was read, and discarded
C12_Witness ==
    /\ last.by = "table"
    /\ TableUsable(cols)
    /\ "-" \in Range(PyStr(last.row[cols.paid_col]))
    /\ "£" \in Range(PyStr(last.row[cols.paid_col]))
    /\ CleanCurrency(PyStr(last.row[cols.paid_col])) = -500
    /\ ~last.call.made

\* the header at position at was chosen for a second role although another header
\* satisfies that role
TakenTwice(at, others) == at # 0 /\ others # {at}

\* C13: each role goes to the first header in column order that satisfies it, and one
\* header has two roles only when no other header satisfies the second; for the
\* headers "Case ID", "Fee Paid", "Payment Type" the amount is "Fee Paid" and the
\* category is "Payment Type".
C13_OneHeaderPerRole ==
    last.by = "header" =>
        \E header \in {last.row} :
        \E paid \in {{i \in 1..Len(header) : IsPaidHeader(header[i])}} :
        \E type \in {{i \in 1..Len(header) : IsPaymentTypeHeader(header[i])}} :
            /\ cols.case_id_col = First({i \in 1..Len(header) : IsCaseIdHeader(header[i])})
            /\ cols.paid_col \in paid \cup {0}
            /\ cols.payment_type_col \in type \cup {0}
            /\ cols.paid_col = cols.case_id_col => ~TakenTwice(cols.paid_col, paid)
            /\ cols.payment_type_col \in {cols.case_id_col, cols.paid_col}
                  => ~TakenTwice(cols.payment_type_col, type)
            /\ header = HeaderFeePaid => (cols.paid_col = 2 /\ cols.payment_type_col = 3)

\* C14: in a report row for a case already in the ledger, every column whose name
\* contains "fee", "proc", "payment" or "paid" in any case is accumulated: a positive
\* amount under "Amount Paid" is added to the ledger value, not put in its place.
C14_FeeLikeColumnsAccumulate ==
    (ReportStep /\ ~Absent(last.md, ReportId)) =>
        \A i \in Mask(last.md, ReportId) : \A c \in Range(cols.columns) :
            (/\ FeeLikeName(c)
             /\ ~IsNa(last.row[c])
             /\ CleanCurrency(PyStr(last.row[c])) > 0) =>
                master_data.rows[i][c]
                    = Num(Amount(last.md, i, c) + CleanCurrency(PyStr(last.row[c])))

\* the cell of row i under c is what it was before the last step; an undefined cell
\* stays undefined, and a column the ledger did not have comes in undefined
CellKept(i, c) ==
    IF HasColumn(last.md, c)
    THEN \/ master_data.rows[i][c] = last.md.rows[i][c]
         \/ IsNa(master_data.rows[i][c]) /\ IsNa(last.md.rows[i][c])
    ELSE IsNa(master_data.rows[i][c])

\* C15: in a report row for a case already in the ledger, a fee-like column that comes
\* empty or with a normalized amount <= 0 leaves the ledger value as it was; no report
\* row clears or lowers a fee.
C15_AbsentFeeLeavesValue ==
    (ReportStep /\ ~Absent(last.md, ReportId)) =>
        \A i \in Mask(last.md, ReportId) :
        \A c \in {c \in Range(cols.columns) : FeeLikeName(c)} :
            /\ (IsNa(last.row[c]) \/ CleanCurrency(PyStr(last.row[c])) <= 0) => CellKept(i, c)
            /\ Amount(master_data, i, c) >= Amount(last.md, i, c)

\* a table cell without a value: null, or text that is empty once trimmed
MissingCell(cell) == IsNa(cell) \/ (cell.t = "txt" /\ Strip(cell.s) = <<>>)

\* C16: a table row whose category cell is missing, in a table whose headers gave a
\* category column, is passed over: no fee-style update is made and the ledger and the
\* change list stay as they were.
C16_MissingCategorySkipsRow ==
    (/\ last.by = "table"
     /\ cols.payment_type_col # 0
     /\ MissingCell(last.row[cols.payment_type_col])) =>
        /\ ~last.call.made
        /\ master_data = last.md
        /\ updates_made = last.upd

\* C17: the identifier column of a report is a header that, lower-cased and without
\* whitespace, is equal to "caseid"; a header that only contains it, such as
\* "Old Case ID Ref", is not chosen, and a report without such a header has no
\* identifier column.
C17_IdentifierHeaderIsCaseId ==
    last.by \in {"columns", "report"} =>
        \E exact \in {{c \in Range(cols.columns) :
                        RemoveChars(Lower(c), Whitespace) = <<"c","a","s","e","i","d">>}} :
            /\ cols.caseid_col # <<>> => cols.caseid_col \in exact
            /\ cols.caseid_col = <<>> => exact = {}

\* C18: a report without an identifier column is given up as a whole: the ledger, with
\* its rows, columns and values, and the change list are as they were before the call,
\* and the call returns without raising.
C18_NoIdentifierNoChange ==
    (last.by = "columns" /\ cols.caseid_col = <<>>) =>
        /\ master_data = last.md
        /\ updates_made = last.upd
        /\ pc = "excels"
        /\ error = "none"

\* a report without an identifier column came to a ledger that has a row and to a
\* change list that has an entry
C18_Witness ==
    /\ last.by = "columns"
    /\ cols.caseid_col = <<>>
    /\ Len(master_data.rows) >= 1
    /\ updates_made # <<>>
    /\ pc = "excels"

\* the ledger after the calls of the sequence calls, made on md one after the other
RECURSIVE ApplyAll(_, _)
ApplyAll(md, calls) ==
    IF calls = <<>> THEN md
    ELSE ApplyAll(UpdatePayment(md, <<>>, calls[1].case_id, calls[1].payment_type,
                                calls[1].amount).md,
                  Tail(calls))

\* the orders in which n calls can be made
Orders(n) == {p \in [1..n -> 1..n] : \A i, j \in 1..n : p[i] = p[j] => i = j}

\* the sum of the amounts of the calls
RECURSIVE SumAmounts(_)
SumAmounts(calls) ==
    IF calls = <<>> THEN 0 ELSE calls[1].amount + SumAmounts(Tail(calls))

\* the sum of the cells of md given by row and column, missing counted as 0
RECURSIVE SumOfCells(_, _)
SumOfCells(md, cells) ==
    IF cells = {} THEN 0
    ELSE LET x == CHOOSE x \in cells : TRUE
         IN  Amount(md, x[1], x[2]) + SumOfCells(md, cells \ {x})

\* the sum over all rows and all category fields of md
CategoryTotal(md) ==
    SumOfCells(md, (1..Len(md.rows)) \X (Range(md.columns) \ {CaseID}))

\* what the ledger md holds for case_id under payment_type, missing counted as 0
CaseValue(md, case_id, payment_type) ==
    IF Absent(md, case_id) THEN 0
    ELSE SumOfCells(md, Mask(md, case_id) \X {payment_type})

\* the cases and the categories of the calls made
AppliedCases == {applied[i].case_id : i \in 1..Len(applied)}

AppliedTypes == {applied[i].payment_type : i \in 1..Len(applied)}

============================================================================
